---- MODULE Spec2Model ----
(***************************************************************************)
(* update-dns: authenticated dynamic DNS updates against one name server.  *)
(* Model of src/main.rs: main, update_name, delete_name, delete_record,    *)
(* find_zone_root and the record builders of Args.  One action is the code *)
(* that runs between two awaits of a session call: the response of the     *)
(* pending call arrives, the handler runs on and either issues the next    *)
(* call or ends the invocation.                                            *)
(***************************************************************************)
EXTENDS Integers, Sequences, FiniteSets, TLC

(***************************************************************************)
(* Bounds of the model.                                                    *)
(***************************************************************************)
\* most records the server holds at the forward name when the tool starts
MaxAnswers == 2
\* most entries in the name-server list of an NS response
MaxNs == 2
\* the longest value list Args::to_record is applied to
MaxValues == 4

(***************************************************************************)
(* Program constants.                                                      *)
(***************************************************************************)
\* default of --ttl
DefaultTtl == 86400
None == "None"

(***************************************************************************)
(* Names and addresses.  A Name is written in its dotted form.             *)
(***************************************************************************)
Hostname == "host.example."
OtherHost == "other.example."
RootName == "."

\* the candidates for the owner name of a name-server record
ZoneNames == <<"example.", "arpa.">>

V4a == <<192, 0, 2, 5>>
V4b == <<192, 0, 2, 9>>
V6a == <<8193, 3512, 0, 0, 0, 0, 0, 1>>

RECURSIVE Reverse(_)
Reverse(s) == IF s = <<>> THEN <<>> ELSE Append(Reverse(Tail(s)), Head(s))

RECURSIVE Flatten(_)
Flatten(ss) == IF ss = <<>> THEN <<>> ELSE Head(ss) \o Flatten(Tail(ss))

HexDigit == <<"0", "1", "2", "3", "4", "5", "6", "7",
              "8", "9", "a", "b", "c", "d", "e", "f">>

\* the four hexadecimal digits of a 16-bit segment, most significant first
Nibbles(seg) ==
    << HexDigit[(seg \div 4096) + 1], HexDigit[((seg \div 256) % 16) + 1],
       HexDigit[((seg \div 16) % 16) + 1], HexDigit[(seg % 16) + 1] >>

\* the labels of a name, each followed by its dot
RECURSIVE Dotted(_)
Dotted(labels) ==
    IF labels = <<>> THEN "" ELSE Head(labels) \o "." \o Dotted(Tail(labels))

\* Name::from(Ipv4Addr): the octets in reverse order under in-addr.arpa
V4ToName(octets) ==
    Dotted(Reverse([i \in 1..Len(octets) |-> ToString(octets[i])]))
        \o "in-addr.arpa."

\* Name::from(Ipv6Addr): the 32 nibbles in reverse order under ip6.arpa
V6ToName(segs) ==
    Dotted(Reverse(Flatten([i \in 1..Len(segs) |-> Nibbles(segs[i])])))
        \o "ip6.arpa."

(***************************************************************************)
(* Records.  rtype is the record type, data the rdata.                     *)
(***************************************************************************)
Rec(owner, rtype, ttl, data) ==
    [name |-> owner, rtype |-> rtype, ttl |-> ttl, data |-> data]

\* Record::update0: the delete-marker record of a type, with no rdata
Update0(owner, ttl, rtype) == Rec(owner, rtype, ttl, <<>>)

\* RecordType::is_rrsig
IsRrsig(rtype) == rtype = "RRSIG"

(***************************************************************************)
(* Textual values of the command line and what they parse to.              *)
(***************************************************************************)
V4Text == ("192.0.2.5" :> V4a) @@ ("192.0.2.9" :> V4b)
V6Text == ("2001:db8::1" :> V6a)
NameText == ("mail.example." :> "mail.example.")
           @@ ("other.example." :> OtherHost)
U16Text == ("10" :> 10) @@ ("443" :> 443)

Ok(v) == [ok |-> TRUE, v |-> v]
Err(e) == [ok |-> FALSE, e |-> e]

\* str::parse::<T>(): Ok with the value, or Err
Parse(table, text) ==
    IF text \in DOMAIN table THEN Ok(table[text]) ELSE Err("FieldFormat")

(***************************************************************************)
(* Args: the parsed command line.                                          *)
(***************************************************************************)
MkArgs(rtype, value, reverse, delete, append) ==
    [hostname |-> Hostname, record_type |-> rtype, value |-> value,
     reverse |-> reverse, delete |-> delete, append |-> append,
     ttl |-> DefaultTtl]

MissingValue == "Missing value"
NoRecordType == "No record type"
NeedTwoMx == "Need two MX data fields (prio and name)"
NeedFourSrv == "Need four SRV data fields (prio, weight, port and name)"
CantReverse == "Can't reverse record type"

\* the rdata of a single-valued type: the first value parsed with the
\* type's table
SingleRdata(table, value) == Parse(table, value[1])

\* the MX arm of to_record: a slice pattern of exactly two values
MxRdata(value) ==
    IF Len(value) # 2 THEN Err(NeedTwoMx)
    ELSE LET prio == Parse(U16Text, value[1])
             target == Parse(NameText, value[2])
         IN  IF ~prio.ok THEN Err("Invalid MX priority")
             ELSE IF ~target.ok THEN target
             ELSE Ok(<<prio.v, target.v>>)

\* the SRV arm of to_record: a slice pattern of exactly four values
SrvRdata(value) ==
    IF Len(value) # 4 THEN Err(NeedFourSrv)
    ELSE LET prio == Parse(U16Text, value[1])
             weight == Parse(U16Text, value[2])
             port == Parse(U16Text, value[3])
             target == Parse(NameText, value[4])
         IN  IF ~prio.ok THEN Err("Invalid SRV priority")
             ELSE IF ~weight.ok THEN Err("Invalid SRV weight")
             ELSE IF ~port.ok THEN Err("Invalid SRV port")
             ELSE IF ~target.ok THEN target
             ELSE Ok(<<prio.v, weight.v, port.v, target.v>>)

\* Args::to_record
to_record(a) ==
    IF a.value = <<>> THEN Err(MissingValue)
    ELSE IF a.record_type = None THEN Err(NoRecordType)
    ELSE LET t == a.record_type
             rdata == CASE t = "A" -> SingleRdata(V4Text, a.value)
                        [] t = "AAAA" -> SingleRdata(V6Text, a.value)
                        [] t \in {"CNAME", "NS", "PTR"} -> SingleRdata(NameText, a.value)
                        [] t = "MX" -> MxRdata(a.value)
                        [] t = "SRV" -> SrvRdata(a.value)
                        [] t = "TXT" -> Ok(a.value)
         IN  IF rdata.ok THEN Ok(Rec(a.hostname, t, a.ttl, rdata.v)) ELSE rdata

\* Args::to_reverse_record
to_reverse_record(a) ==
    IF a.value = <<>> THEN Err(MissingValue)
    ELSE IF a.record_type = None THEN Err(NoRecordType)
    ELSE LET t == a.record_type
             rev == CASE t = "A" ->
                            LET ip == Parse(V4Text, a.value[1])
                            IN  IF ip.ok THEN Ok(V4ToName(ip.v)) ELSE ip
                       [] t = "AAAA" ->
                            LET ip == Parse(V6Text, a.value[1])
                            IN  IF ip.ok THEN Ok(V6ToName(ip.v)) ELSE ip
                       [] OTHER -> Err(CantReverse)
         IN  IF rev.ok THEN Ok(Rec(rev.v, "PTR", a.ttl, a.hostname)) ELSE rev

\* Args::to_update0: None when no record type was given
to_update0(a) ==
    IF a.record_type = None THEN Err(None)
    ELSE Ok(Update0(a.hostname, a.ttl, a.record_type))

\* the checks of main on the parsed arguments, and the group of -d and -a
ArgsAccepted(a) ==
    /\ ~(a.delete /\ a.append)
    /\ ~a.delete => (a.record_type # None /\ a.value # <<>>)
    /\ a.reverse => a.record_type \in {"A", "AAAA", None}

(***************************************************************************)
(* The name server, seen through the session: the records it holds at each *)
(* name, and the responses it can give.                                    *)
(***************************************************************************)
\* the records a server may hold at the forward name, in the order of its
\* answers
Pool == << Rec(Hostname, "A", 300, V4b),
           Rec(Hostname, "AAAA", 300, V6a),
           Rec(Hostname, "TXT", 300, <<"hello">>),
           Rec(Hostname, "RRSIG", 300, <<"sig">>) >>

ReverseNames == {V4ToName(V4a), V4ToName(V4b), V6ToName(V6a)}
Names == {Hostname} \cup ReverseNames

RECURSIVE Pick(_, _)
\* the records of Pool at the positions in idxs, in Pool's order
Pick(idxs, i) ==
    IF i > Len(Pool) THEN <<>>
    ELSE (IF i \in idxs THEN <<Pool[i]>> ELSE <<>>) \o Pick(idxs, i + 1)

NoError == "NoError"
NXDomain == "NXDomain"
ServFail == "ServFail"
Refused == "Refused"
Transport == "Transport"
Pending == "Pending"

\* the sequences over the indices of ZoneNames of length at most n
RECURSIVE NsIndexLists(_)
NsIndexLists(n) ==
    IF n = 0 THEN {<<>>}
    ELSE LET shorter == NsIndexLists(n - 1)
         IN  shorter \cup {Append(l, z) : l \in shorter, z \in 1..Len(ZoneNames)}

\* the name-server lists an NS response can carry: NS records by owner name
NsLists ==
    {[i \in 1..Len(l) |-> Rec(ZoneNames[l[i]], "NS", 300, <<"ns">>)] :
        l \in NsIndexLists(MaxNs)}

\* a response, by the fields the program reads: of the any-type response
\* its code, its authoritative flag and its answers, of the NS response its
\* code and its name-server list
NoResponse == [code |-> None, authoritative |-> FALSE, answers |-> <<>>]

\* the status codes the server can give to a query at a name: a name that
\* holds records is not reported as nonexistent
QueryCodes(held) ==
    IF held = <<>> THEN {NoError, NXDomain, ServFail} ELSE {NoError, ServFail}

\* the responses of client.query(name, IN, ANY)
AnyResponses(held) ==
    {[code |-> c, authoritative |-> aa,
      answers |-> IF c = NoError THEN held ELSE <<>>] :
        c \in QueryCodes(held), aa \in BOOLEAN}

\* the responses of client.query(name, IN, NS)
NsResponses(held) ==
    {[code |-> c, name_servers |-> ns] :
        c \in QueryCodes(held), ns \in NsLists}

UpdateCodes == {NoError, Refused}

\* the records left at a name once the server has applied an update call
Applied(held, call) ==
    CASE call.op = "create" -> Append(held, call.record)
      [] call.op = "append" -> Append(held, call.record)
      [] call.op = "delete_rrset" ->
            SelectSeq(held, LAMBDA r : r.rtype # call.record.rtype)
      [] call.op = "delete_all" -> <<>>

(***************************************************************************)
(* find_zone_root, after its two queries have returned.                    *)
(***************************************************************************)
ServerError == "Server returned error"
NotAuthoritative == "Server is not authoritative for hostname"
NoNameServer == "Server returned no name servers"
NothingToDelete == "Can't delete name that doesn't exist"

\* CodeAccepted letting every status code pass
CodeAccepted_any(code) == code \in {NXDomain, NoError, ServFail, Refused}

\* CodeAccepted taking NXDomain for an error
CodeAccepted_no_nxdomain(code) == code = NoError

\* the status check applied to each of the two responses
CodeAccepted(code) == code \in {NXDomain, NoError}

\* Matches letting signature records through
Matches_with_rrsig(r, new_type) == new_type = None \/ r.rtype = new_type

\* the filter of extract_if: not a signature, and of the type asked for
Matches(r, new_type) ==
    ~IsRrsig(r.rtype) /\ (new_type = None \/ r.rtype = new_type)

\* find_zone_root without its check of the authoritative flag
find_zone_root_unchecked_aa(response, ns_response, new_type) ==
    IF ~CodeAccepted(response.code) THEN Err(ServerError)
    ELSE IF ~CodeAccepted(ns_response.code) THEN Err(ServerError)
    ELSE LET responses == SelectSeq(response.answers,
                                    LAMBDA r : Matches(r, new_type))
         IN  IF ns_response.name_servers = <<>> THEN Err(NoNameServer)
             ELSE Ok([zone |-> ns_response.name_servers[1].name,
                      responses |-> responses])

\* find_zone_root taking the zone from the last name server of the list
find_zone_root_last_ns(response, ns_response, new_type) ==
    IF ~CodeAccepted(response.code) THEN Err(ServerError)
    ELSE IF ~CodeAccepted(ns_response.code) THEN Err(ServerError)
    ELSE IF ~response.authoritative THEN Err(NotAuthoritative)
    ELSE LET responses == SelectSeq(response.answers,
                                    LAMBDA r : Matches(r, new_type))
         IN  IF ns_response.name_servers = <<>> THEN Err(NoNameServer)
             ELSE Ok([zone |-> ns_response.name_servers[
                                   Len(ns_response.name_servers)].name,
                      responses |-> responses])

\* the zone name and the existing records, or the error
find_zone_root(response, ns_response, new_type) ==
    IF ~CodeAccepted(response.code) THEN Err(ServerError)
    ELSE IF ~CodeAccepted(ns_response.code) THEN Err(ServerError)
    ELSE IF ~response.authoritative THEN Err(NotAuthoritative)
    ELSE LET responses == SelectSeq(response.answers,
                                    LAMBDA r : Matches(r, new_type))
         IN  IF ns_response.name_servers = <<>> THEN Err(NoNameServer)
             ELSE Ok([zone |-> ns_response.name_servers[1].name,
                      responses |-> responses])

(***************************************************************************)
(* The state of one invocation.                                            *)
(***************************************************************************)
VARIABLES
    args,          \* the parsed command line
    store,         \* the records the server holds at each name
    pc,            \* the await the invocation is suspended at
    phase,         \* the function that called find_zone_root or the update
    log,           \* the session calls issued so far, with their outcomes
    any_response,  \* find_zone_root's response to the any-type query
    record,        \* the record update_name has built
    zone,          \* the zone name find_zone_root returned last
    responses,     \* delete_name's existing records of the forward name
    idx,           \* position of delete_name's loop in responses
    name,          \* the reverse name delete_name's loop works on
    result,        \* the result of main
    resolutions,   \* history: what each call of find_zone_root returned
    warnings       \* the reverse names warned about

vars == <<args, store, pc, phase, log, any_response, record, zone, responses,
          idx, name, result, resolutions, warnings>>

Running == "Running"
Success == "Ok"

\* the local state as one value, and its assignment
Cur ==
    [pc |-> pc, phase |-> phase, log |-> log, any_response |-> any_response,
     record |-> record, zone |-> zone, responses |-> responses, idx |-> idx,
     name |-> name, result |-> result, resolutions |-> resolutions,
     warnings |-> warnings]

Become(next) ==
    \E n \in {next} :
        /\ pc' = n.pc
        /\ phase' = n.phase
        /\ log' = n.log
        /\ any_response' = n.any_response
        /\ record' = n.record
        /\ zone' = n.zone
        /\ responses' = n.responses
        /\ idx' = n.idx
        /\ name' = n.name
        /\ result' = n.result
        /\ resolutions' = n.resolutions
        /\ warnings' = n.warnings

Call(op, owner, rtype, z, rec) ==
    [op |-> op, name |-> owner, rtype |-> rtype, zone |-> z, record |-> rec,
     res |-> Pending]

NoRecord == Update0(RootName, 0, None)

\* a session call is issued and awaited
Issue(st, call, at) ==
    [st EXCEPT !.pc = at, !.log = Append(@, call)]

\* Returned going on without the outcome of the pending call
Returned_not_awaited(st, res) == [st EXCEPT !.any_response = NoResponse]

\* the pending call returns with a status code or a transport error
Returned(st, res) ==
    [st EXCEPT !.log[Len(st.log)].res = res, !.any_response = NoResponse]

\* main returns
Finish(st, res) ==
    [st EXCEPT !.pc = "done", !.result = res, !.any_response = NoResponse]

\* find_zone_root up to its first await
BeginResolve(st, ph, hostname) ==
    Issue([st EXCEPT !.phase = ph],
          Call("query", hostname, "ANY", RootName, NoRecord), "query_any")

\* update_name up to its first await: the record is built, then resolved
BeginUpdate(st, a, reverse) ==
    LET built == IF reverse THEN to_reverse_record(a) ELSE to_record(a)
    IN  IF ~built.ok THEN Finish(st, built.e)
        ELSE BeginResolve([st EXCEPT !.record = built.v],
                          IF reverse THEN "update_reverse" ELSE "update_name",
                          built.v.name)

\* Name::from of the addresses a record can hold, computed once
V4Names == [d \in {V4a, V4b} |-> V4ToName(d)]
V6Names == [d \in {V6a} |-> V6ToName(d)]

\* the reverse name of a removed record, for the address types only
AddrName(resp) ==
    CASE resp.rtype = "A" -> Ok(V4Names[resp.data])
      [] resp.rtype = "AAAA" -> Ok(V6Names[resp.data])
      [] OTHER -> Err("continue")

\* delete_name's loop from position i on: the records that are no addresses
\* are passed over, the next address is resolved, and past the last record
\* delete_name returns Ok
RECURSIVE ReverseLoop(_, _)
ReverseLoop(st, i) ==
    IF i > Len(st.responses) THEN Finish([st EXCEPT !.idx = i], Success)
    ELSE LET rev == AddrName(st.responses[i])
         IN  IF ~rev.ok THEN ReverseLoop(st, i + 1)
             ELSE BeginResolve([st EXCEPT !.idx = i, !.name = rev.v],
                               "reverse_delete", rev.v)

\* Failed with delete_name's loop returning the error like any other code
Failed_loop_aborts(st, error) == Finish(st, error)

\* Failed with the reverse update treated like delete_name's loop: its
\* error is a warning and main returns Ok
Failed_reverse_lenient(st, error) ==
    IF st.phase = "reverse_delete"
    THEN ReverseLoop([st EXCEPT !.warnings = Append(@, st.name)], st.idx + 1)
    ELSE IF st.phase = "update_reverse"
    THEN Finish([st EXCEPT !.warnings = Append(@, st.record.name)], Success)
    ELSE Finish(st, error)

\* Failed with the error of the forward operation not returned: the
\* reverse step follows it all the same
Failed_forward_unpropagated(st, error) ==
    IF st.phase = "reverse_delete"
    THEN ReverseLoop([st EXCEPT !.warnings = Append(@, st.name)], st.idx + 1)
    ELSE IF st.phase = "update_name" /\ args.reverse
    THEN BeginUpdate(st, args, TRUE)
    ELSE IF st.phase = "delete_name" /\ args.reverse
    THEN ReverseLoop(st, 1)
    ELSE Finish(st, error)

\* Failed with delete_name's loop trying a failed address a second time
Failed_retries_once(st, error) ==
    IF st.phase = "reverse_delete"
    THEN ReverseLoop([st EXCEPT !.warnings = Append(@, st.name)],
                     IF st.name \in {st.warnings[k] : k \in DOMAIN st.warnings}
                     THEN st.idx + 1 ELSE st.idx)
    ELSE Finish(st, error)

\* an error of a session call or of find_zone_root: inside delete_name's
\* loop it is a warning and the loop goes on, anywhere else main returns it
Failed(st, error) ==
    IF st.phase = "reverse_delete"
    THEN ReverseLoop([st EXCEPT !.warnings = Append(@, st.name)], st.idx + 1)
    ELSE Finish(st, error)

\* the name and the type filter find_zone_root was called with
ResolveName(st) == st.log[Len(st.log)].name

ResolveType(st, a) ==
    CASE st.phase = "delete_name" -> a.record_type
      [] st.phase = "reverse_delete" -> "PTR"
      [] OTHER -> st.record.rtype

\* the owner name of the first record of a name-server list, None for an
\* empty list
FirstOwner(name_servers) ==
    IF name_servers = <<>> THEN None ELSE name_servers[1].name

\* find_zone_root returns r to its caller, having seen the response any (or
\* no response) to its any-type query and the response ns (or no response)
\* to its NS query
Resolution(st, a, any, ns, r) ==
    [name |-> ResolveName(st), new_type |-> ResolveType(st, a),
     any |-> any.code, authoritative |-> any.authoritative,
     answers |-> any.answers, ns |-> ns.code,
     ns_first |-> FirstOwner(ns.name_servers),
     ok |-> r.ok, error |-> IF r.ok THEN None ELSE r.e,
     zone |-> IF r.ok THEN r.v.zone ELSE RootName,
     existing |-> IF r.ok THEN r.v.responses ELSE <<>>]

Noted(st, entry) == [st EXCEPT !.resolutions = Append(@, entry)]

\* a response that never came
Lost == [code |-> Transport, authoritative |-> FALSE, answers |-> <<>>]

\* the NS query was not issued, or its response never came
NotAsked == [code |-> None, name_servers |-> <<>>]
LostNs == [code |-> Transport, name_servers |-> <<>>]

(***************************************************************************)
(* What the callers of find_zone_root do with its result.                  *)
(***************************************************************************)
\* update_step creating over the existing record without deleting it
update_step_no_delete(existing, append) ==
    IF existing # <<>> /\ append THEN "append" ELSE "create"

\* update_step replacing the existing record whatever the append flag
update_step_no_append(existing, append) ==
    IF existing # <<>> THEN "delete_rrset" ELSE "create"

\* update_step appending whenever the append flag is set
update_step_append_first(existing, append) ==
    IF append THEN "append"
    ELSE IF existing # <<>> THEN "delete_rrset"
    ELSE "create"

\* update_name: the call that follows the resolution
update_step(existing, append) ==
    IF existing # <<>>
    THEN IF append THEN "append" ELSE "delete_rrset"
    ELSE "create"

\* delete_step deleting the whole name whatever the type filter
delete_step_always_all(a) == "delete_all"

\* delete_name: the call that deletes the forward name
delete_step(a) == IF to_update0(a).ok THEN "delete_rrset" ELSE "delete_all"

\* client.create(record, zone) is issued
IssueCreate(st) ==
    Issue(st, Call("create", st.record.name, st.record.rtype, st.zone, st.record),
          "create")

\* UpdateResolved with the reverse record replaced whatever the append flag
UpdateResolved_reverse_replaces(st, a, existing) ==
    LET rec == st.record
        step == update_step(existing, a.append /\ st.phase # "update_reverse")
    IN  CASE step = "append" ->
               Issue(st, Call("append", rec.name, rec.rtype, st.zone, rec),
                     "append")
          [] step = "delete_rrset" ->
               Issue(st, Call("delete_rrset", rec.name, rec.rtype, st.zone,
                              Update0(rec.name, rec.ttl, rec.rtype)),
                     "delete_rrset")
          [] step = "create" -> IssueCreate(st)

\* update_name from the return of find_zone_root to its next await
UpdateResolved(st, a, existing) ==
    LET rec == st.record
        step == update_step(existing, a.append)
    IN  CASE step = "append" ->
               Issue(st, Call("append", rec.name, rec.rtype, st.zone, rec),
                     "append")
          [] step = "delete_rrset" ->
               Issue(st, Call("delete_rrset", rec.name, rec.rtype, st.zone,
                              Update0(rec.name, rec.ttl, rec.rtype)),
                     "delete_rrset")
          [] step = "create" -> IssueCreate(st)

\* DeleteResolved without the check that something exists
DeleteResolved_unchecked(st, a, existing) ==
    LET st1 == [st EXCEPT !.responses = existing]
    IN  IF delete_step(a) = "delete_rrset"
        THEN LET marker == to_update0(a).v
             IN  Issue(st1, Call("delete_rrset", marker.name, marker.rtype,
                                 st1.zone, marker), "delete_rrset")
        ELSE Issue(st1, Call("delete_all", a.hostname, "ANY", st1.zone, NoRecord),
                   "delete_all")

\* delete_name from the return of its first find_zone_root to its next await
DeleteResolved(st, a, existing) ==
    LET st1 == [st EXCEPT !.responses = existing]
    IN  IF existing = <<>> THEN Finish(st1, NothingToDelete)
        ELSE IF delete_step(a) = "delete_rrset"
        THEN LET marker == to_update0(a).v
             IN  Issue(st1, Call("delete_rrset", marker.name, marker.rtype,
                                 st1.zone, marker), "delete_rrset")
        ELSE Issue(st1, Call("delete_all", a.hostname, "ANY", st1.zone, NoRecord),
                   "delete_all")

\* ReverseResolved deleting the PTR RRset whether or not one exists
ReverseResolved_unchecked(st, rev_resp) ==
    LET marker == Update0(st.name, st.responses[st.idx].ttl, "PTR")
    IN  Issue(st, Call("delete_rrset", st.name, "PTR", st.zone, marker),
              "delete_rrset")

\* delete_name's loop from the return of find_zone_root to its next await
ReverseResolved(st, rev_resp) ==
    IF rev_resp = <<>> THEN ReverseLoop(st, st.idx + 1)
    ELSE LET marker == Update0(st.name, st.responses[st.idx].ttl, "PTR")
         IN  Issue(st, Call("delete_rrset", st.name, "PTR", st.zone, marker),
                   "delete_rrset")

\* Resolved with the reverse calls keeping the zone of the forward name
Resolved_forward_zone(st, a, r) ==
    IF ~r.ok THEN Failed(st, r.e)
    ELSE LET st1 == IF st.phase \in {"reverse_delete", "update_reverse"}
                    THEN st ELSE [st EXCEPT !.zone = r.v.zone]
         IN  CASE st.phase = "delete_name" -> DeleteResolved(st1, a, r.v.responses)
               [] st.phase = "reverse_delete" -> ReverseResolved(st1, r.v.responses)
               [] OTHER -> UpdateResolved(st1, a, r.v.responses)

\* the caller of find_zone_root goes on with its result
Resolved(st, a, r) ==
    IF ~r.ok THEN Failed(st, r.e)
    ELSE LET st1 == [st EXCEPT !.zone = r.v.zone]
         IN  CASE st.phase = "delete_name" -> DeleteResolved(st1, a, r.v.responses)
               [] st.phase = "reverse_delete" -> ReverseResolved(st1, r.v.responses)
               [] OTHER -> UpdateResolved(st1, a, r.v.responses)

\* update_name has returned Ok: main goes on to the reverse record, or ends
UpdateDone(st, a) ==
    IF st.phase = "update_name" /\ a.reverse THEN BeginUpdate(st, a, TRUE)
    ELSE Finish(st, Success)

\* the forward delete of delete_name has succeeded
ForwardDeleted(st, a) ==
    IF a.reverse THEN ReverseLoop(st, 1) ELSE Finish(st, Success)

\* delete_record has returned Ok to its caller
RecordDeleted(st, a) ==
    CASE st.phase = "delete_name" -> ForwardDeleted(st, a)
      [] st.phase = "reverse_delete" -> ReverseLoop(st, st.idx + 1)
      [] OTHER -> IssueCreate(st)

\* update_checked without the check
update_checked_lax(code) == Ok(code)

\* the check of the response code of an update call
update_checked(code) == IF code # NoError THEN Err(ServerError) ELSE Ok(code)

(***************************************************************************)
(* Initial states: an accepted command line and a server.                  *)
(***************************************************************************)
RunTypes == {None, "A", "AAAA", "TXT", "MX"}
RunValues == { <<"192.0.2.5">>, <<"2001:db8::1">>, <<"10", "mail.example.">> }

\* the reverse names an invocation can come to: of the addresses the server
\* holds when it deletes, of the address it is given when it updates
ReachableReverse(a) ==
    IF ~a.reverse THEN {}
    ELSE IF a.delete
    THEN {AddrName(Pool[i]).v : i \in {j \in 1..Len(Pool) : AddrName(Pool[j]).ok}}
    ELSE IF to_reverse_record(a).ok THEN {to_reverse_record(a).v.name}
    ELSE {}

ArgSet ==
    {a \in {MkArgs(t, v, r, d, ap) :
                t \in RunTypes, v \in RunValues \cup {<<>>},
                r \in BOOLEAN, d \in BOOLEAN, ap \in BOOLEAN} :
        /\ ArgsAccepted(a)
        /\ a.delete <=> a.value = <<>>}

\* the servers: at most MaxAnswers records at the forward name, and a PTR
\* record at some of the reverse names the invocation can come to
Stores(a) ==
    {[n \in Names |->
        IF n = Hostname THEN Pick(idxs, 1)
        ELSE IF n \in ptrs THEN <<Rec(n, "PTR", 300, OtherHost)>>
        ELSE <<>>] :
        idxs \in {x \in SUBSET (1..Len(Pool)) : Cardinality(x) <= MaxAnswers},
        ptrs \in SUBSET ReachableReverse(a)}

Init ==
    /\ args \in ArgSet
    /\ store \in Stores(args)
    /\ pc = "start"
    /\ phase = "main"
    /\ log = <<>>
    /\ any_response = NoResponse
    /\ record = NoRecord
    /\ zone = RootName
    /\ responses = <<>>
    /\ idx = 0
    /\ name = RootName
    /\ result = Running
    /\ resolutions = <<>>
    /\ warnings = <<>>

(***************************************************************************)
(* Actions: the code between two awaits.                                   *)
(***************************************************************************)
PendingCall == log[Len(log)]

\* main up to the first await
Start ==
    /\ pc = "start"
    /\ Become(IF args.delete
              THEN BeginResolve(Cur, "delete_name", args.hostname)
              ELSE BeginUpdate(Cur, args, FALSE))
    /\ UNCHANGED <<args, store>>

\* the any-type query returns: find_zone_root issues the NS query
QueryAnyReturns ==
    /\ pc = "query_any"
    /\ \/ Become(Failed(Noted(Returned(Cur, Transport),
                               Resolution(Cur, args, Lost, NotAsked, Err(Transport))),
                         Transport))
       \/ \E r \in AnyResponses(store[ResolveName(Cur)]) :
             Become(Issue([Returned(Cur, r.code) EXCEPT !.any_response = r],
                          Call("query", ResolveName(Cur), "NS", RootName, NoRecord),
                          "query_ns"))
    /\ UNCHANGED <<args, store>>

\* the NS query returns: find_zone_root returns and its caller goes on
QueryNsReturns ==
    /\ pc = "query_ns"
    /\ \/ Become(Failed(Noted(Returned(Cur, Transport),
                               Resolution(Cur, args, any_response, LostNs,
                                          Err(Transport))),
                         Transport))
       \/ \E r \in NsResponses(store[ResolveName(Cur)]) :
             LET found == find_zone_root(any_response, r, ResolveType(Cur, args))
             IN  Become(Resolved(Noted(Returned(Cur, r.code),
                                       Resolution(Cur, args, any_response, r, found)),
                                 args, found))
    /\ UNCHANGED <<args, store>>

\* an update call returns a transport error: the server may have applied it
UpdateLost ==
    /\ \E applied \in BOOLEAN :
          store' = IF applied
                   THEN [store EXCEPT ![PendingCall.name] = Applied(@, PendingCall)]
                   ELSE store
    /\ Become(Failed(Returned(Cur, Transport), Transport))

\* an update call returns a response: the server has applied it if and only
\* if the code is NoError
UpdateAnswered(code) ==
    store' = IF code = NoError
             THEN [store EXCEPT ![PendingCall.name] = Applied(@, PendingCall)]
             ELSE store

\* delete_rrset returns: delete_record returns and its caller goes on
DeleteRrsetReturns ==
    /\ pc = "delete_rrset"
    /\ \/ UpdateLost
       \/ \E code \in UpdateCodes :
             /\ UpdateAnswered(code)
             /\ Become(LET st == Returned(Cur, code)
                           checked == update_checked(code)
                       IN  IF checked.ok THEN RecordDeleted(st, args)
                           ELSE Failed(st, checked.e))
    /\ UNCHANGED args

\* delete_all returns to delete_name
DeleteAllReturns ==
    /\ pc = "delete_all"
    /\ \/ UpdateLost
       \/ \E code \in UpdateCodes :
             /\ UpdateAnswered(code)
             /\ Become(LET st == Returned(Cur, code)
                           checked == update_checked(code)
                       IN  IF checked.ok THEN ForwardDeleted(st, args)
                           ELSE Failed(st, checked.e))
    /\ UNCHANGED args

\* append returns to update_name
AppendReturns ==
    /\ pc = "append"
    /\ \/ UpdateLost
       \/ \E code \in UpdateCodes :
             /\ UpdateAnswered(code)
             /\ Become(LET st == Returned(Cur, code)
                           checked == update_checked(code)
                       IN  IF checked.ok THEN UpdateDone(st, args)
                           ELSE Failed(st, checked.e))
    /\ UNCHANGED args

\* create returns to update_name
CreateReturns ==
    /\ pc = "create"
    /\ \/ UpdateLost
       \/ \E code \in UpdateCodes :
             /\ UpdateAnswered(code)
             /\ Become(LET st == Returned(Cur, code)
                           checked == update_checked(code)
                       IN  IF checked.ok THEN UpdateDone(st, args)
                           ELSE Failed(st, checked.e))
    /\ UNCHANGED args

Next ==
    \/ Start
    \/ QueryAnyReturns
    \/ QueryNsReturns
    \/ DeleteRrsetReturns
    \/ DeleteAllReturns
    \/ AppendReturns
    \/ CreateReturns

Spec == Init /\ [][Next]_vars

\* every session call returns in the end, with a response or with an error
FairSpec == Spec /\ WF_vars(Next)

(***************************************************************************)
(* What the claims speak of, read off the log and the history.             *)
(***************************************************************************)
Range(seq) == {seq[i] : i \in DOMAIN seq}

\* the update calls issued for a name, in the order of their issue
UpdateCalls(n) == SelectSeq(log, LAMBDA e : e.op # "query" /\ e.name = n)

\* the positions in the log of the calls of a kind for a name
CallsAt(op, n) == {i \in DOMAIN log : log[i].op = op /\ log[i].name = n}

ReplaceMode == ~args.delete /\ ~args.append
AppendMode == ~args.delete /\ args.append
DeleteMode == args.delete

\* a call has returned and has not succeeded
CallFailed(e) == e.res \notin {NoError, Pending}

\* C1: in Create-or-replace mode, for a name whose resolution reported an
\* existing record of the type, the first update call is delete_rrset of
\* that type and the second, issued if and only if the delete returned
\* NoError, is create; a failed delete is the last call of the invocation.
C1_ReplaceDeletesThenCreates ==
    ReplaceMode =>
        \A i \in DOMAIN resolutions :
            LET r == resolutions[i]
                cs == UpdateCalls(r.name)
            IN  (r.ok /\ r.existing # <<>>) =>
                    /\ Len(cs) \in {1, 2}
                    /\ cs[1].op = "delete_rrset"
                    /\ cs[1].rtype = r.new_type
                    /\ cs[1].res = NoError <=> Len(cs) = 2
                    /\ Len(cs) = 2 => cs[2].op = "create"
                    /\ CallFailed(cs[1]) =>
                          /\ pc = "done"
                          /\ result # Success
                          /\ log[Len(log)].op = "delete_rrset"
                          /\ log[Len(log)].name = r.name

C1_Witness ==
    /\ ReplaceMode
    /\ pc = "done"
    /\ \E i \in DOMAIN resolutions :
          /\ resolutions[i].existing # <<>>
          /\ Len(UpdateCalls(resolutions[i].name)) = 2
          /\ UpdateCalls(resolutions[i].name)[2].res = NoError

\* C2: in Delete mode, when the resolution of the forward name succeeds with
\* no existing record, main returns NothingToDelete and the two queries of
\* that resolution are the only session calls of the invocation.
C2_NothingToDelete ==
    (DeleteMode /\ resolutions # <<>>
        /\ resolutions[1].ok /\ resolutions[1].existing = <<>>) =>
        /\ pc = "done"
        /\ result = NothingToDelete
        /\ Len(log) = 2
        /\ \A i \in DOMAIN log : log[i].op = "query"

C2_Witness ==
    /\ DeleteMode
    /\ args.reverse
    /\ store[Hostname] # <<>>
    /\ result = NothingToDelete

\* C3: in Append mode, for a name whose resolution reported an existing
\* record of the type, the update calls for that name are exactly one
\* append, whatever it returns.
C3_AppendOnly ==
    AppendMode =>
        \A i \in DOMAIN resolutions :
            LET r == resolutions[i]
                cs == UpdateCalls(r.name)
            IN  (r.ok /\ r.existing # <<>>) =>
                    /\ Len(cs) = 1
                    /\ cs[1].op = "append"

C3_Witness ==
    /\ AppendMode
    /\ pc = "done"
    /\ \E i \in DOMAIN resolutions :
          /\ resolutions[i].existing # <<>>
          /\ CallFailed(UpdateCalls(resolutions[i].name)[1])

\* the forward delete of delete_name has returned NoError
ForwardDeleteOk ==
    /\ DeleteMode
    /\ UpdateCalls(Hostname) # <<>>
    /\ UpdateCalls(Hostname)[1].res = NoError

\* the reverse names of the address records delete_name removed
RemovedAddrNames ==
    {AddrName(responses[k]).v : k \in {j \in DOMAIN responses : AddrName(responses[j]).ok}}

\* the reverse step of a removed address has failed
ReverseDeleteFailed(n) ==
    \/ \E i \in DOMAIN resolutions : resolutions[i].name = n /\ ~resolutions[i].ok
    \/ \E i \in CallsAt("delete_rrset", n) : CallFailed(log[i])

\* C4: in Delete mode with reverse sync, once the forward delete has
\* succeeded and main has returned, the result is success, every removed
\* address has had its reverse name queried, every one that resolved with
\* an existing PTR has had its PTR delete issued, and the warnings are the
\* addresses whose resolution or PTR delete failed, once each.
C4_ReverseDeleteIndependent ==
    (ForwardDeleteOk /\ args.reverse /\ pc = "done") =>
        /\ result = Success
        /\ \A n \in RemovedAddrNames :
              /\ CallsAt("query", n) # {}
              /\ (\E i \in DOMAIN resolutions :
                     /\ resolutions[i].name = n
                     /\ resolutions[i].ok
                     /\ resolutions[i].existing # <<>>)
                 => Cardinality(CallsAt("delete_rrset", n)) = 1
              /\ n \in Range(warnings) <=> ReverseDeleteFailed(n)
        /\ Range(warnings) \subseteq RemovedAddrNames
        /\ Len(warnings) = Cardinality(Range(warnings))

C4_Witness ==
    /\ ForwardDeleteOk
    /\ args.reverse
    /\ pc = "done"
    /\ Len(warnings) = 1
    /\ log[Len(log)].op = "delete_rrset"
    /\ log[Len(log)].rtype = "PTR"
    /\ log[Len(log)].res = NoError
    /\ log[Len(log)].name # warnings[1]

\* the error find_zone_root returns for a non-authoritative any-type
\* response, by the checks that come before that of the flag
NonAuthoritativeError(r) ==
    IF r.ns = Transport THEN Transport
    ELSE IF ~CodeAccepted(r.any) \/ ~CodeAccepted(r.ns) THEN ServerError
    ELSE NotAuthoritative

\* C5 as claimed: find_zone_root, both its queries having returned, on a
\* non-authoritative any-type response always fails with NotAuthoritative.
C5_Claimed ==
    \A i \in DOMAIN resolutions :
        LET r == resolutions[i]
        IN  (r.any # Transport /\ r.ns # Transport /\ ~r.authoritative) =>
                (~r.ok /\ r.error = NotAuthoritative)

\* C5 as amended: find_zone_root on a non-authoritative any-type response
\* always fails, whatever the answers; the error is NotAuthoritative when
\* the NS query returned and both status codes are NoError or NXDomain, and
\* otherwise that of the earlier check (the transport error of the NS
\* query, or ServerError).
C5_NonAuthoritativeFails ==
    \A i \in DOMAIN resolutions :
        LET r == resolutions[i]
        IN  (r.any # Transport /\ ~r.authoritative) =>
                (~r.ok /\ r.error = NonAuthoritativeError(r))

C5_Witness ==
    \E i \in DOMAIN resolutions :
        /\ resolutions[i].any = NoError
        /\ ~resolutions[i].authoritative
        /\ store[resolutions[i].name] # <<>>
        /\ resolutions[i].error = NotAuthoritative

\* a call of delete_name's loop
InLoop(e) == DeleteMode /\ e.name # Hostname

\* a query has returned a status find_zone_root does not accept
StatusRejected(e) == e.op = "query" /\ e.res \notin {NoError, NXDomain, Pending, Transport}

\* a session call has failed: a transport error, a status other than
\* NoError of an update call, a status find_zone_root rejects of a query
SessionFailed(e) ==
    IF e.op = "query" THEN e.res = Transport \/ StatusRejected(e)
    ELSE CallFailed(e)

\* no session call is issued twice
NoRetry ==
    \A i, j \in DOMAIN log :
        (i < j) => ~(/\ log[i].op = log[j].op
                     /\ log[i].name = log[j].name
                     /\ log[i].rtype = log[j].rtype)

\* C6 as claimed: no call is issued twice, and outside delete_name's loop a
\* failed session call is the last session call of the invocation.
C6_Claimed ==
    /\ NoRetry
    /\ \A i \in DOMAIN log :
          (SessionFailed(log[i]) /\ ~InLoop(log[i])) => i = Len(log)

\* C6 as amended: no call is issued twice; outside delete_name's loop a
\* failed session call is the last of the invocation and main returns an
\* error, except that an any-type query whose status is rejected is still
\* followed by the NS query for the same name, which is then the last call,
\* and main returns an error once it has returned.
C6_FailureAborts ==
    /\ NoRetry
    /\ \A i \in DOMAIN log :
          (SessionFailed(log[i]) /\ ~InLoop(log[i])) =>
              IF StatusRejected(log[i]) /\ log[i].rtype = "ANY"
              THEN /\ Len(log) = i + 1
                   /\ log[i + 1].op = "query"
                   /\ log[i + 1].rtype = "NS"
                   /\ log[i + 1].name = log[i].name
                   /\ log[i + 1].res # Pending =>
                          (pc = "done" /\ result \notin {Success, Running})
              ELSE /\ i = Len(log)
                   /\ pc = "done"
                   /\ result \notin {Success, Running}

C6_Witness ==
    /\ pc = "done"
    /\ Len(log) = 2
    /\ log[1].res = ServFail
    /\ log[2].res = NoError
    /\ result = ServerError

\* the forward operation has succeeded: the forward delete, or the create
\* or append of the forward update_name, has returned NoError
ForwardOk ==
    LET cs == UpdateCalls(Hostname)
    IN  /\ cs # <<>>
        /\ cs[Len(cs)].res = NoError
        /\ cs[Len(cs)].op \in
              (IF DeleteMode THEN {"delete_rrset", "delete_all"} ELSE {"create", "append"})

\* the reverse step has failed for an address: the resolution of a reverse
\* name, or an update call for it
ReverseStepFailed ==
    \/ \E i \in DOMAIN resolutions : resolutions[i].name # Hostname /\ ~resolutions[i].ok
    \/ \E i \in DOMAIN log :
          log[i].op # "query" /\ log[i].name # Hostname /\ CallFailed(log[i])

\* C7 as claimed: when the forward operation has succeeded and the reverse
\* step has failed, main returns success, in an update as in a delete.
C7_Claimed ==
    (pc = "done" /\ ForwardOk /\ ReverseStepFailed) => result = Success

\* C7 as amended: when the forward operation has succeeded and the reverse
\* step has failed, main returns success in Delete mode, and in an update
\* (create, replace or append) it returns the error of the reverse step.
C7_ReverseFailure ==
    (pc = "done" /\ ForwardOk /\ ReverseStepFailed) =>
        IF DeleteMode THEN result = Success
        ELSE /\ result \notin {Success, Running}
             /\ \/ \E i \in DOMAIN resolutions :
                      /\ resolutions[i].name # Hostname
                      /\ resolutions[i].error = result
                \/ /\ CallFailed(log[Len(log)])
                   /\ result = (IF log[Len(log)].res = Transport
                                THEN Transport ELSE ServerError)

C7_Witness ==
    /\ ~DeleteMode
    /\ args.reverse
    /\ pc = "done"
    /\ ForwardOk
    /\ log[Len(log)].op = "create"
    /\ log[Len(log)].rtype = "PTR"
    /\ log[Len(log)].res = Refused

\* C8: in Create-or-replace mode, when the delete of an existing record has
\* returned NoError and the create that follows has failed, the create is
\* the last session call, main returns an error, and, the create having
\* been refused by the server, the name holds no record of the type.
C8_ReplaceNotAtomic ==
    ReplaceMode =>
        \A i \in DOMAIN resolutions :
            LET r == resolutions[i]
                cs == UpdateCalls(r.name)
            IN  (r.ok /\ r.existing # <<>> /\ Len(cs) = 2 /\ CallFailed(cs[2])) =>
                    /\ pc = "done"
                    /\ result \notin {Success, Running}
                    /\ log[Len(log)].op = "create"
                    /\ log[Len(log)].name = r.name
                    /\ cs[2].res # Transport =>
                          \A k \in DOMAIN store[r.name] :
                              store[r.name][k].rtype # r.new_type

C8_Witness ==
    /\ ReplaceMode
    /\ pc = "done"
    /\ resolutions # <<>>
    /\ resolutions[1].existing # <<>>
    /\ log[Len(log)].op = "create"
    /\ log[Len(log)].name = Hostname
    /\ log[Len(log)].res = Refused
    /\ \A k \in DOMAIN store[Hostname] : store[Hostname][k].rtype # args.record_type

\* C9: in Delete mode with an existing record, exactly one update call is
\* issued for the forward name: delete_rrset of the delete-marker of the
\* type when a type is given, delete_all when none is; it is addressed to
\* the resolved zone, and main returns success only if it returned NoError.
C9_ForwardDeleteOneCall ==
    (DeleteMode /\ resolutions # <<>>
        /\ resolutions[1].ok /\ resolutions[1].existing # <<>>) =>
        LET cs == UpdateCalls(Hostname)
        IN  /\ Len(cs) = 1
            /\ IF args.record_type # None
               THEN /\ cs[1].op = "delete_rrset"
                    /\ cs[1].rtype = args.record_type
                    /\ cs[1].record = Update0(Hostname, args.ttl, args.record_type)
               ELSE cs[1].op = "delete_all"
            /\ cs[1].zone = resolutions[1].zone
            /\ result = Success => cs[1].res = NoError
            /\ CallFailed(cs[1]) => (pc = "done" /\ result \notin {Success, Running})

C9_Witness ==
    /\ DeleteMode
    /\ args.record_type = None
    /\ pc = "done"
    /\ result = Success
    /\ UpdateCalls(Hostname)[1].op = "delete_all"

\* the record update_name builds for a name
BuiltRecord(n) ==
    IF n = Hostname THEN to_record(args).v ELSE to_reverse_record(args).v

\* update_name has returned Ok for a name
UpdateReturnedOk(n) ==
    IF n = Hostname /\ args.reverse
    THEN phase = "update_reverse" \/ result = Success
    ELSE result = Success

\* C10: in Create-or-replace and in Append mode alike, for a name whose
\* resolution reported no existing record of the type, the update calls for
\* that name are exactly one create of the built record in the resolved
\* zone, and update_name returns Ok if and only if it returned NoError.
C10_CreateWhenAbsent ==
    ~DeleteMode =>
        \A i \in DOMAIN resolutions :
            LET r == resolutions[i]
                cs == UpdateCalls(r.name)
            IN  (r.ok /\ r.existing = <<>>) =>
                    /\ Len(cs) = 1
                    /\ cs[1].op = "create"
                    /\ cs[1].record = BuiltRecord(r.name)
                    /\ cs[1].zone = r.zone
                    /\ UpdateReturnedOk(r.name) <=> cs[1].res = NoError

C10_Witness ==
    /\ AppendMode
    /\ pc = "done"
    /\ result = Success
    /\ store[Hostname] # <<>>
    /\ Len(log) = 3
    /\ resolutions[1].existing = <<>>
    /\ log[3].op = "create"

\* C11: when both status codes of a resolution are NoError or NXDomain and
\* the any-type response is authoritative, find_zone_root returns as zone
\* the owner name of the first record of the NS response's name-server
\* list, and fails with NoNameServer when that list is empty; no resolution
\* yields a zone from an empty list, and after a NoNameServer failure no
\* update call is issued for the name.
C11_ZoneIsFirstNameServer ==
    \A i \in DOMAIN resolutions :
        LET r == resolutions[i]
        IN  /\ r.ok => (r.ns_first # None /\ r.zone = r.ns_first)
            /\ (/\ r.any \in {NoError, NXDomain}
                /\ r.ns \in {NoError, NXDomain}
                /\ r.authoritative) =>
                   IF r.ns_first = None
                   THEN /\ ~r.ok
                        /\ r.error = NoNameServer
                        /\ UpdateCalls(r.name) = <<>>
                        /\ ~InLoop(r) => (pc = "done" /\ result = NoNameServer)
                   ELSE r.ok /\ r.zone = r.ns_first

C11_Witness ==
    /\ DeleteMode
    /\ pc = "done"
    /\ Len(resolutions) = 3
    /\ resolutions[1].zone = "arpa."
    /\ resolutions[2].error = NoNameServer
    /\ resolutions[3].zone = "example."
    /\ resolutions[3].existing # <<>>
    /\ UpdateCalls(Hostname)[1].zone = "arpa."
    /\ UpdateCalls(resolutions[3].name)[1].zone = "example."

\* the status codes find_zone_root lets pass
AcceptedCodes == {NoError, NXDomain}

\* C12: of a resolution both of whose queries returned, find_zone_root
\* succeeds only if both status codes are NoError or NXDomain, and with
\* such codes, an authoritative response and a name server it does succeed;
\* any other status code on either response is ServerError and no update
\* call is issued for the name; a NXDomain any-type response is no error:
\* the existing set is empty and an update goes on to create the record.
C12_AcceptedStatuses ==
    \A i \in DOMAIN resolutions :
        LET r == resolutions[i]
        IN  (r.any # Transport /\ r.ns # Transport) =>
                /\ r.ok => (r.any \in AcceptedCodes /\ r.ns \in AcceptedCodes)
                /\ (r.any \notin AcceptedCodes \/ r.ns \notin AcceptedCodes) =>
                       /\ ~r.ok
                       /\ r.error = ServerError
                       /\ UpdateCalls(r.name) = <<>>
                       /\ ~InLoop(r) => (pc = "done" /\ result = ServerError)
                /\ (/\ r.any \in AcceptedCodes
                    /\ r.ns \in AcceptedCodes
                    /\ r.authoritative
                    /\ r.ns_first # None) => r.ok
                /\ (r.ok /\ r.any = NXDomain) =>
                       /\ r.existing = <<>>
                       /\ ~DeleteMode => UpdateCalls(r.name)[1].op = "create"

C12_Witness ==
    /\ ~DeleteMode
    /\ pc = "done"
    /\ Len(resolutions) = 2
    /\ resolutions[1].any = NXDomain
    /\ resolutions[1].ns = NXDomain
    /\ UpdateCalls(Hostname)[1].op = "create"
    /\ UpdateCalls(Hostname)[1].res = NoError
    /\ store[Hostname] # <<>>
    /\ resolutions[2].any = NoError
    /\ resolutions[2].ns = ServFail
    /\ result = ServerError

\* the positions of the answers of a resolution that are no signature
\* records and are of the type asked for, or of any type when none is
KeptAnswers(r) ==
    {k \in DOMAIN r.answers :
        /\ r.answers[k].rtype # "RRSIG"
        /\ r.new_type # None => r.answers[k].rtype = r.new_type}

\* the j-th smallest of a set of positions
NthOf(positions, j) ==
    CHOOSE k \in positions : Cardinality({m \in positions : m <= k}) = j

\* C14: the existing records a successful resolution returns are the
\* answers of the any-type response that are no RRSIG records and are of
\* the type asked for (all that are no RRSIG records when no type is asked
\* for), in the order of the answers; when no answer is kept the name is
\* treated as holding no record: an update creates, the forward delete
\* fails with NothingToDelete, the reverse delete issues no call.
C14_ExistingRecords ==
    \A i \in DOMAIN resolutions :
        LET r == resolutions[i]
            kept == KeptAnswers(r)
        IN  r.ok =>
               /\ Len(r.existing) = Cardinality(kept)
               /\ \A j \in DOMAIN r.existing :
                      r.existing[j] = r.answers[NthOf(kept, j)]
               /\ kept = {} =>
                      IF ~DeleteMode
                      THEN UpdateCalls(r.name)[1].op = "create"
                      ELSE /\ UpdateCalls(r.name) = <<>>
                           /\ r.name = Hostname => result = NothingToDelete

C14_Witness ==
    /\ ReplaceMode
    /\ pc = "done"
    /\ result = Success
    /\ resolutions # <<>>
    /\ Len(resolutions[1].answers) = 2
    /\ \E k \in 1..2 : resolutions[1].answers[k].rtype = "RRSIG"
    /\ resolutions[1].existing = <<>>
    /\ Len(log) = 3
    /\ log[3].op = "create"

\* the positions in the log of the calls in flight
InFlight == {i \in DOMAIN log : log[i].res = Pending}

\* C15: at every point at most one session call is in flight, and it is
\* the call issued last: a call is issued only once every earlier call has
\* returned its response or its failure, in the forward operation, the
\* reverse update and the reverse-delete loop alike; none is in flight
\* when main returns.
C15_OneInFlight ==
    /\ Cardinality(InFlight) <= 1
    /\ InFlight \subseteq {Len(log)}
    /\ pc = "done" => InFlight = {}

C15_Witness ==
    /\ pc = "delete_rrset"
    /\ phase = "reverse_delete"
    /\ Len(log) = 9
    /\ InFlight = {9}
    /\ log[6].op = "delete_rrset"
    /\ log[6].res = Refused

\* the positions of the successful resolutions of a name
ResolvedAt(n) == {j \in DOMAIN resolutions : resolutions[j].name = n /\ resolutions[j].ok}

\* before position i of the log the any-type query and then the NS query
\* for a name have returned a status find_zone_root accepts
QueriedBefore(n, i) ==
    \E a, b \in 1..(i - 1) :
        /\ a < b
        /\ log[a].op = "query" /\ log[a].name = n /\ log[a].rtype = "ANY"
        /\ log[b].op = "query" /\ log[b].name = n /\ log[b].rtype = "NS"
        /\ log[a].res \in {NoError, NXDomain}
        /\ log[b].res \in {NoError, NXDomain}

\* C16: every update call (create, append, delete_rrset, delete_all) comes
\* after the any-type query and the NS query for the owner name of its
\* record, follows a successful resolution of that name, and is addressed
\* to the zone that resolution returned; a call for a reverse name whose
\* zone differs from that of the forward name is not addressed to the
\* forward name's zone.
C16_OwnZone ==
    \A i \in DOMAIN log :
        (log[i].op # "query") =>
            /\ QueriedBefore(log[i].name, i)
            /\ Cardinality(ResolvedAt(log[i].name)) = 1
            /\ \A j \in ResolvedAt(log[i].name) :
                   /\ log[i].zone = resolutions[j].zone
                   /\ \A k \in ResolvedAt(Hostname) :
                          resolutions[k].zone # resolutions[j].zone
                              => log[i].zone # resolutions[k].zone

C16_Witness ==
    /\ DeleteMode
    /\ pc = "done"
    /\ Len(log) = 6
    /\ log[3].zone = "example."
    /\ log[6].op = "delete_rrset"
    /\ log[6].rtype = "PTR"
    /\ log[6].zone = "arpa."
    /\ log[6].res = NoError

\* the update calls that complete the forward operation
ForwardFinalOps ==
    IF DeleteMode THEN {"delete_rrset", "delete_all"} ELSE {"create", "append"}

\* C17: a session call for a reverse name, query or update, is issued only
\* with reverse sync asked for and after the forward operation has
\* succeeded: the last update call for the forward name, the create or
\* append of an update or the delete_rrset or delete_all of a delete, has
\* returned NoError before it; when main has returned and the forward
\* operation has not succeeded, no call was issued for any reverse name.
C17_ReverseAfterForward ==
    /\ \A i \in DOMAIN log :
          (log[i].name # Hostname) =>
              /\ args.reverse
              /\ \E k \in 1..(i - 1) :
                     /\ log[k].name = Hostname
                     /\ log[k].op \in ForwardFinalOps
                     /\ log[k].res = NoError
                     /\ \A m \in (k + 1)..Len(log) : log[m].name # Hostname
    /\ (pc = "done" /\ ~ForwardOk) =>
          \A i \in DOMAIN log : log[i].name = Hostname

C17_Witness ==
    /\ ReplaceMode
    /\ args.reverse
    /\ pc = "done"
    /\ Len(log) = 8
    /\ log[3].op = "delete_rrset"
    /\ log[4].op = "create"
    /\ log[4].name = Hostname
    /\ log[5].name # Hostname
    /\ log[8].res = NoError

\* the reverse resolution of a name succeeded, with or without a PTR record
ReverseFound(n, some) ==
    \E j \in DOMAIN resolutions :
        /\ resolutions[j].name = n
        /\ resolutions[j].ok
        /\ (resolutions[j].existing # <<>>) = some

\* the positions of the removed address records whose reverse name
\* resolved with an existing PTR record
RemovedWithPtr ==
    {k \in DOMAIN responses :
        AddrName(responses[k]).ok /\ ReverseFound(AddrName(responses[k]).v, TRUE)}

\* the positions in the log of the PTR deletes
PtrDeletes == {i \in DOMAIN log : log[i].op = "delete_rrset" /\ log[i].rtype = "PTR"}

\* C18: in Delete mode, a removed address whose reverse name resolved with
\* no PTR record gets its two queries and nothing more, no delete_rrset and
\* no warning; every session call is for the forward name or for the
\* reverse name of a removed A or AAAA record, so the other removed records
\* cause none; and the PTR deletes issued are as many as the removed A and
\* AAAA records whose reverse name resolved with an existing PTR record.
C18_SkipsAbsentPtr ==
    DeleteMode =>
        /\ \A n \in RemovedAddrNames :
              ReverseFound(n, FALSE) =>
                  /\ UpdateCalls(n) = <<>>
                  /\ Cardinality(CallsAt("query", n)) = 2
                  /\ n \notin Range(warnings)
        /\ \A i \in DOMAIN log : log[i].name \in {Hostname} \cup RemovedAddrNames
        /\ Cardinality(PtrDeletes) = Cardinality(RemovedWithPtr)

C18_Witness ==
    /\ DeleteMode
    /\ pc = "done"
    /\ result = Success
    /\ Len(responses) = 2
    /\ \E k \in 1..2 : responses[k].rtype = "TXT"
    /\ Len(log) = 5
    /\ store[log[5].name] = <<>>
    /\ PtrDeletes = {}
    /\ warnings = <<>>

\* the records of a sequence are all held at a name
StillHeld(records, n) ==
    \A k \in DOMAIN records :
        \E m \in DOMAIN store[n] : store[n][m] = records[k]

\* C19: in an update with reverse sync, when the resolution of the reverse
\* name reports an existing PTR record, Append mode issues for the reverse
\* name exactly one append of the new PTR record and no delete_rrset, and
\* the existing PTR records stay; Create-or-replace mode issues first the
\* delete_rrset of type PTR and then, if that returned NoError, the create
\* of the new PTR record.
C19_ReverseFollowsMode ==
    ~DeleteMode =>
        \A j \in DOMAIN resolutions :
            LET r == resolutions[j]
                cs == UpdateCalls(r.name)
                ptr == to_reverse_record(args).v
            IN  (r.name # Hostname /\ r.ok /\ r.existing # <<>>) =>
                    IF args.append
                    THEN /\ Len(cs) = 1
                         /\ cs[1].op = "append"
                         /\ cs[1].record = ptr
                         /\ CallsAt("delete_rrset", r.name) = {}
                         /\ StillHeld(r.existing, r.name)
                    ELSE /\ cs[1].op = "delete_rrset"
                         /\ cs[1].rtype = "PTR"
                         /\ Len(cs) <= 2
                         /\ cs[1].res = NoError <=> Len(cs) = 2
                         /\ Len(cs) = 2 =>
                                (cs[2].op = "create" /\ cs[2].record = ptr)

C19_Witness ==
    /\ AppendMode
    /\ args.reverse
    /\ pc = "done"
    /\ result = Success
    /\ Len(resolutions) = 2
    /\ resolutions[2].existing # <<>>
    /\ log[Len(log)].op = "append"
    /\ log[Len(log)].rtype = "PTR"
    /\ Len(store[resolutions[2].name]) = 2

\* the number of session calls claimed for an invocation: 4 for an update,
\* 8 with the reverse record, and for a delete 3 and 3 more for each of
\* the n existing records the forward resolution returned
CallBound ==
    IF ~DeleteMode THEN (IF args.reverse THEN 8 ELSE 4)
    ELSE IF args.reverse THEN 3 + 3 * Len(responses)
    ELSE 3

\* main has returned its result
Terminated == pc = "done" /\ result # Running

\* C20: every session call returning in the end, every invocation comes
\* to return a result, success or an error, and never issues more session
\* calls than 4 in an update without reverse sync, 8 in an update with it,
\* and 3 + 3n in a delete with it, n being the number of existing records
\* the forward resolution returned.
C20_TerminatesWithinBound ==
    /\ <>Terminated
    /\ [](Len(log) <= CallBound)

C20_Witness ==
    /\ DeleteMode
    /\ args.reverse
    /\ Terminated
    /\ Len(responses) = 2
    /\ Len(log) = 9
    /\ Len(log) = CallBound

(***************************************************************************)
(* Args::to_record as a function of the parsed command line alone.         *)
(***************************************************************************)
\* the record types of DnsRecordType
RecordTypes == {"A", "AAAA", "CNAME", "MX", "NS", "PTR", "SRV", "TXT"}

\* the texts a value of the command line is drawn from
ValueTexts == {"192.0.2.5", "10", "mail.example."}

\* the value lists of length at most n
RECURSIVE ValueLists(_)
ValueLists(n) ==
    IF n = 0 THEN {<<>>}
    ELSE LET shorter == ValueLists(n - 1)
         IN  shorter \cup {Append(v, t) : v \in shorter, t \in ValueTexts}

CodecArgs ==
    {MkArgs(t, v, FALSE, FALSE, FALSE) :
        t \in RecordTypes \cup {None}, v \in ValueLists(MaxValues)}

CodecInit ==
    /\ args \in CodecArgs
    /\ store = [n \in Names |-> <<>>]
    /\ pc = "start"
    /\ phase = "to_record"
    /\ log = <<>>
    /\ any_response = NoResponse
    /\ record = NoRecord
    /\ zone = RootName
    /\ responses = <<>>
    /\ idx = 0
    /\ name = RootName
    /\ result = Running
    /\ resolutions = <<>>
    /\ warnings = <<>>

\* to_record is applied to the arguments: its record, or its error
ToRecord ==
    /\ pc = "start"
    /\ phase = "to_record"
    /\ LET built == to_record(args)
       IN  /\ record' = (IF built.ok THEN built.v ELSE NoRecord)
           /\ result' = (IF built.ok THEN Success ELSE built.e)
    /\ pc' = "done"
    /\ UNCHANGED <<args, store, phase, log, any_response, zone, responses,
                   idx, name, resolutions, warnings>>

CodecNext == ToRecord

CodecSpec == CodecInit /\ [][CodecNext]_vars

\* the number of values the record types require
Arity(rtype) ==
    CASE rtype = "MX" -> 2
      [] rtype = "SRV" -> 4
      [] OTHER -> 1

\* the errors of to_record that report a wrong number of values
ArityErrors == {MissingValue, NeedTwoMx, NeedFourSrv}

\* C13: for every record type, to_record on a value list whose length
\* differs from the number of values the type requires (1 for A, AAAA,
\* CNAME, NS, PTR and TXT, 2 for MX, 4 for SRV) produces no record, and
\* fails with an error reporting the wrong number of values (granted that
\* a first value that does not parse may be reported instead).
C13_Claimed ==
    (/\ pc = "done"
     /\ args.record_type \in RecordTypes
     /\ Len(args.value) # Arity(args.record_type)) =>
        /\ result # Success
        /\ result \in ArityErrors \cup {"FieldFormat"}

====
